---- MODULE Spec2Model ----
(***************************************************************************)
(* A model of rcoverick/transaction_analyzer: the TD Ameritrade row        *)
(* parsers, the symbol grouper, the relationship resolver, the cost-basis  *)
(* aggregator and main's pipeline.                                         *)
(*                                                                         *)
(* Go strings are modelled as sequences of one-character strings, so that  *)
(* strings.HasPrefix, strings.TrimSpace, time.Parse and big.ParseFloat are *)
(* computed character by character.  A Go slice index i is the sequence    *)
(* index i+1.  *big.Float values are modelled by integers: the inputs the  *)
(* model enumerates are decimal integer literals of small magnitude, which *)
(* a 53-bit mantissa holds and adds exactly.                               *)
(***************************************************************************)
EXTENDS Integers, Sequences, FiniteSets, TLC

VARIABLES
    pc,              \* position of the run / of the operation under test
    configFile,      \* content of ./config.json (or its absence)
    csvPath,         \* the one path at which a transactions csv exists
    csv,             \* the rows of that csv file
    configs,         \* main: configs
    configErr,       \* main: err of getConfigs
    transactions,    \* main: transactions
    groupedSymbols,  \* main: groupedSymbols
    relatedSymbols,  \* main: relatedSymbols
    cb,              \* main: cb
    row,             \* the row handed to the row parsers
    trade,           \* result of NewTradeTDA / newTransactionTDA
    transaction,     \* result of models.NewTransaction
    stats,           \* main: stats
    e,               \* a *CostBasis receiver
    avgCost          \* outcome of getAvgCost / getEffAvgCost

vars == <<pc, configFile, csvPath, csv, configs, configErr, transactions,
          groupedSymbols, relatedSymbols, cb, stats, row, trade, transaction, e,
          avgCost>>

mainVars == <<configFile, csvPath, csv, configs, configErr, transactions,
              groupedSymbols, relatedSymbols, cb, stats>>
parseVars == <<row, trade, transaction>>
cbVars == <<e, avgCost>>

\* value of a variable that the running specification does not use
Unused == <<>>

-----------------------------------------------------------------------------
(* Bounds *)

\* rows in the csv file
MaxRows == 3
\* related positions attached to one CostBasis
MaxRelated == 3
\* trades summed by one newCostBasis call
MaxTrades == 2
\* records in the list handed to newTransactionStats on its own
MaxList == 3

-----------------------------------------------------------------------------
(* Strings *)

Digits == {"0", "1", "2", "3", "4", "5", "6", "7", "8", "9"}

DigitVal(c) ==
    CASE c = "0" -> 0 [] c = "1" -> 1 [] c = "2" -> 2 [] c = "3" -> 3
      [] c = "4" -> 4 [] c = "5" -> 5 [] c = "6" -> 6 [] c = "7" -> 7
      [] c = "8" -> 8 [] c = "9" -> 9

\* strings.HasPrefix(s, prefix)
HasPrefix(s, prefix) ==
    /\ Len(s) >= Len(prefix)
    /\ SubSeq(s, 1, Len(prefix)) = prefix

\* unicode.IsSpace on the characters the model uses
IsSpace(c) == c \in {" ", "\t", "\n", "\r"}

RECURSIVE TrimLeft(_)
TrimLeft(s) ==
    IF s # <<>> /\ IsSpace(Head(s)) THEN TrimLeft(Tail(s)) ELSE s

RECURSIVE TrimRight(_)
TrimRight(s) ==
    IF s # <<>> /\ IsSpace(s[Len(s)]) THEN TrimRight(SubSeq(s, 1, Len(s) - 1)) ELSE s

\* strings.TrimSpace(s)
TrimSpace(s) == TrimRight(TrimLeft(s))

AllDigits(s) == \A i \in 1..Len(s) : s[i] \in Digits

RECURSIVE DecimalValue(_)
DecimalValue(s) ==
    IF s = <<>> THEN 0 ELSE 10 * DecimalValue(SubSeq(s, 1, Len(s) - 1)) + DigitVal(s[Len(s)])

-----------------------------------------------------------------------------
(* Number and date parsing *)

\* big.ParseFloat(s, 10, 53, big.ToNearestEven) on decimal integer literals:
\* an optional sign followed by at least one digit; anything else is an error.
ParseFloat(s) ==
    LET signed == s # <<>> /\ Head(s) \in {"+", "-"}
        mant   == IF signed THEN Tail(s) ELSE s
    IN  IF mant # <<>> /\ AllDigits(mant)
        THEN [err |-> FALSE,
              f   |-> IF signed /\ Head(s) = "-" THEN 0 - DecimalValue(mant)
                                                  ELSE DecimalValue(mant)]
        ELSE [err |-> TRUE, f |-> 0]

\* strconv.ParseInt(s, 0, 32) / strconv.ParseFloat(s, 32) on the same literals
StrconvParse(s) == ParseFloat(s)

IsLeap(y) == (y % 4 = 0 /\ y % 100 # 0) \/ y % 400 = 0

DaysIn(m, y) ==
    IF m = 2 THEN (IF IsLeap(y) THEN 29 ELSE 28)
    ELSE IF m \in {4, 6, 9, 11} THEN 30 ELSE 31

\* time.Parse("01/02/2006", s): two-digit month, "/", two-digit day, "/",
\* four-digit year, nothing else, month and day in range.
TimeParse(s) ==
    LET shape == /\ Len(s) = 10
                 /\ s[3] = "/" /\ s[6] = "/"
                 /\ \A i \in {1, 2, 4, 5, 7, 8, 9, 10} : s[i] \in Digits
        m == DecimalValue(SubSeq(s, 1, 2))
        d == DecimalValue(SubSeq(s, 4, 5))
        y == DecimalValue(SubSeq(s, 7, 10))
    IN  IF shape /\ m \in 1..12 /\ d >= 1 /\ d <= DaysIn(m, y)
        THEN [err |-> FALSE, t |-> [month |-> m, day |-> d, year |-> y]]
        ELSE [err |-> TRUE, t |-> [month |-> 1, day |-> 1, year |-> 1]]

-----------------------------------------------------------------------------
(* Row parsers *)

\* a nil *Trade / *transaction / *Transaction / *CostBasis
Nil == [nil |-> TRUE]

Bought == <<"B", "o", "u", "g", "h", "t">>

\* the mutant fails the row when the amount does not parse
NewTradeTDA_StrictAmount(r) ==
    LET quantity   == ParseFloat(r[4])
        price      == ParseFloat(r[6])
        commission == ParseFloat(r[7])
        amount     == ParseFloat(r[8])
        dt         == TimeParse(r[1])
    IN  IF dt.err \/ amount.err THEN [t |-> Nil, err |-> TRUE]
        ELSE [t |-> [Date        |-> dt.t,
                     Description |-> r[3],
                     Symbol      |-> r[5],
                     Quantity    |-> IF HasPrefix(r[3], Bought)
                                     THEN quantity.f ELSE 0 - quantity.f,
                     Price       |-> price.f,
                     Commission  |-> commission.f,
                     Amount      |-> amount.f],
              err |-> FALSE]

\* trade.NewTradeTDA(r) and main's newTransactionTDA(r), which are the same code:
\* the pair (*Trade, error).  ParseFloat's error branch assigns NewFloat(0),
\* which is the f of the error record.
NewTradeTDA(r) ==
    LET quantity   == ParseFloat(r[4])
        price      == ParseFloat(r[6])
        commission == ParseFloat(r[7])
        amount     == ParseFloat(r[8])
        dt         == TimeParse(r[1])
    IN  IF dt.err THEN [t |-> Nil, err |-> TRUE]
        ELSE [t |-> [Date        |-> dt.t,
                     Description |-> r[3],
                     Symbol      |-> r[5],
                     Quantity    |-> IF HasPrefix(r[3], Bought)
                                     THEN quantity.f ELSE 0 - quantity.f,
                     Price       |-> price.f,
                     Commission  |-> commission.f,
                     Amount      |-> amount.f],
              err |-> FALSE]

\* the header row of a TD Ameritrade export, by column
HeaderRow == <<"DATE", "TRANSACTION ID", "DESCRIPTION", "QUANTITY", "SYMBOL",
               "PRICE", "COMMISSION", "AMOUNT", "REG FEE">>

\* the earlier loadTransactions: the row as a map from column name to value
RowAsMap(r) ==
    [name \in {HeaderRow[j] : j \in 1..Len(HeaderRow)} |->
        r[CHOOSE j \in 1..Len(HeaderRow) : HeaderRow[j] = name]]

\* models.NewTransaction(csvRow): the pair (*Transaction, error); every field
\* that does not parse fails the row.
NewTransaction(csvRow) ==
    LET transDate       == TimeParse(csvRow["DATE"])
        transQty        == StrconvParse(csvRow["QUANTITY"])
        transPrice      == StrconvParse(csvRow["PRICE"])
        transCommission == StrconvParse(csvRow["COMMISSION"])
        transAmount     == StrconvParse(csvRow["AMOUNT"])
        transRegFee     == StrconvParse(csvRow["REG FEE"])
    IN  IF \/ transDate.err \/ transQty.err \/ transPrice.err
           \/ transCommission.err \/ transAmount.err \/ transRegFee.err
        THEN [t |-> Nil, err |-> TRUE]
        ELSE [t |-> [Date          |-> transDate.t,
                     TransactionID |-> csvRow["TRANSACTION ID"],
                     Description   |-> csvRow["DESCRIPTION"],
                     Quantity      |-> transQty.f,
                     Symbol        |-> csvRow["SYMBOL"],
                     Price         |-> transPrice.f,
                     Commission    |-> transCommission.f,
                     Amount        |-> transAmount.f,
                     RegFee        |-> transRegFee.f],
              err |-> FALSE]

-----------------------------------------------------------------------------
(* Symbol grouper *)

\* the outcome of a call that panics (nil dereference, ErrNaN)
Panic == [panic |-> TRUE]

\* the mutant puts a later trade of a symbol in front of the earlier ones
RECURSIVE groupSymbolsFrom_Prepend(_, _, _)
groupSymbolsFrom_Prepend(trans, i, results) ==
    IF i > Len(trans) THEN results
    ELSE LET t == trans[i] IN
         IF t = Nil THEN Panic
         ELSE LET trimmedSymbol == TrimSpace(t.Symbol) IN
              IF Len(trimmedSymbol) = 0
              THEN groupSymbolsFrom_Prepend(trans, i + 1, results)
              ELSE IF trimmedSymbol \in DOMAIN results
              THEN groupSymbolsFrom_Prepend(trans, i + 1,
                       [results EXCEPT ![trimmedSymbol] = <<t>> \o @])
              ELSE groupSymbolsFrom_Prepend(trans, i + 1,
                       [s \in DOMAIN results \cup {trimmedSymbol} |->
                           IF s = trimmedSymbol THEN <<t>> ELSE results[s]])

\* groupSymbols' loop from index i on; t.Symbol of a nil t is a nil-pointer
\* dereference.
RECURSIVE groupSymbolsFrom(_, _, _)
groupSymbolsFrom(trans, i, results) ==
    IF i > Len(trans) THEN results
    ELSE LET t == trans[i] IN
         IF t = Nil THEN Panic
         ELSE LET trimmedSymbol == TrimSpace(t.Symbol) IN
              IF Len(trimmedSymbol) = 0
              THEN groupSymbolsFrom(trans, i + 1, results)
              ELSE IF trimmedSymbol \in DOMAIN results
              THEN groupSymbolsFrom(trans, i + 1,
                       [results EXCEPT ![trimmedSymbol] = Append(@, t)])
              ELSE groupSymbolsFrom(trans, i + 1,
                       [s \in DOMAIN results \cup {trimmedSymbol} |->
                           IF s = trimmedSymbol THEN <<t>> ELSE results[s]])

\* groupSymbols(trans): the map symbol -> transactions, or Panic
groupSymbols(trans) == groupSymbolsFrom(trans, 1, <<>>)

-----------------------------------------------------------------------------
(* Relationship resolver *)

\* every order in which a range loop may visit the set S, as sequences
Orders(S) ==
    {o \in [1..Cardinality(S) -> S] : \A i, j \in 1..Cardinality(S) : o[i] = o[j] => i = j}

\* the mutant forgets the space after the base symbol
isRelated_NoSpace(symbol, s) == symbol # s /\ HasPrefix(symbol, s)

\* the mutant relates only a symbol that adds exactly one token to the base
isRelated_OneToken(symbol, s) ==
    /\ symbol # s
    /\ HasPrefix(symbol, s \o <<" ">>)
    /\ \A i \in (Len(s) + 2)..Len(symbol) : symbol[i] # " "

\* the condition of groupRelatedSymbols' inner loop
isRelated(symbol, s) == symbol # s /\ HasPrefix(symbol, s \o <<" ">>)

\* groupRelatedSymbols(groupedTransactions): every map it may return.  The inner
\* range loop visits the keys in an order Go does not fix, so the list of a
\* symbol is any order of the symbols that match it; a symbol with no match
\* gets no entry.
groupRelatedSymbols(groupedTransactions) ==
    LET keys == DOMAIN groupedTransactions
        matches(s) == {symbol \in keys : isRelated(symbol, s)}
        bases == {s \in keys : Cardinality(matches(s)) > 0}
    IN  {results \in [bases -> UNION {Orders(matches(s)) : s \in bases}] :
            \A s \in bases : results[s] \in Orders(matches(s))}

-----------------------------------------------------------------------------
(* Cost basis *)

RECURSIVE sumQuantity(_)
sumQuantity(trans) ==
    IF trans = <<>> THEN 0
    ELSE (IF Head(trans) # Nil THEN Head(trans).Quantity ELSE 0) + sumQuantity(Tail(trans))

RECURSIVE sumAmount(_)
sumAmount(trans) ==
    IF trans = <<>> THEN 0
    ELSE (IF Head(trans) # Nil THEN Head(trans).Amount ELSE 0) + sumAmount(Tail(trans))

\* newCostBasis(symbol, trans)
newCostBasis(symbol, trans) ==
    [Symbol           |-> symbol,
     Transactions     |-> trans,
     RelatedPositions |-> <<>>,
     Position         |-> sumQuantity(trans),
     PL               |-> sumAmount(trans),
     EffPL            |-> sumAmount(trans)]

\* appendCostBasis' loop: updatedEffPL after adding the PL of the related
\* positions from index i on
RECURSIVE addRelatedPL(_, _, _)
addRelatedPL(updatedEffPL, related, i) ==
    IF i > Len(related) THEN updatedEffPL
    ELSE IF related[i] = Nil THEN addRelatedPL(updatedEffPL, related, i + 1)
    ELSE addRelatedPL(updatedEffPL + related[i].PL, related, i + 1)

\* the mutant accumulates on the previous EffPL instead of recomputing from PL
appendCostBasis_Accumulate(rcv, c) ==
    LET related == Append(rcv.RelatedPositions, c)
    IN  [rcv EXCEPT !.RelatedPositions = related,
                    !.EffPL = addRelatedPL(rcv.EffPL, related, 1)]

\* the mutant adds the PL of the related positions to the receiver's PL too
appendCostBasis_AddsToPL(rcv, c) ==
    LET related == Append(rcv.RelatedPositions, c)
    IN  [rcv EXCEPT !.RelatedPositions = related,
                    !.PL = addRelatedPL(rcv.PL, related, 1),
                    !.EffPL = addRelatedPL(rcv.PL, related, 1)]

\* (e *CostBasis) appendCostBasis(cb): the receiver afterwards
appendCostBasis(rcv, c) ==
    LET related == Append(rcv.RelatedPositions, c)
    IN  [rcv EXCEPT !.RelatedPositions = related,
                    !.EffPL = addRelatedPL(rcv.PL, related, 1)]

\* z.Quo(x, y) of math/big on finite operands: a panic with ErrNaN for 0/0,
\* a signed infinity for x/0, the quotient otherwise.  Position is a sum that
\* starts from +0, so a zero divisor is +0 and the infinity has the sign of x.
Quo(x, y) ==
    IF y = 0
    THEN IF x = 0 THEN [kind |-> "panic", err |-> "ErrNaN"]
         ELSE [kind |-> "value", inf |-> TRUE, neg |-> x < 0, num |-> x, den |-> y]
    ELSE [kind |-> "value", inf |-> FALSE, neg |-> (x < 0) # (y < 0), num |-> x, den |-> y]

\* (e *CostBasis) getAvgCost()
getAvgCost(rcv) == Quo(rcv.PL, rcv.Position)

\* (e *CostBasis) getEffAvgCost()
getEffAvgCost(rcv) == Quo(rcv.EffPL, rcv.Position)

-----------------------------------------------------------------------------
(* Cost basis aggregator *)

\* groupedTransactions[symbol]: the nil slice for a symbol that is no key
lookup(groupedTransactions, symbol) ==
    IF symbol \in DOMAIN groupedTransactions THEN groupedTransactions[symbol] ELSE <<>>

\* the mutant attaches a related symbol without marking it visited
RECURSIVE attachRelated_NoMark(_, _, _, _, _)
attachRelated_NoMark(effCB, visitedSymbols, related, relatedSymbolIdx, groupedTransactions) ==
    IF relatedSymbolIdx > Len(related)
    THEN [effCB |-> effCB, visitedSymbols |-> visitedSymbols]
    ELSE LET relatedSymbol == related[relatedSymbolIdx] IN
         IF relatedSymbol \in visitedSymbols
         THEN attachRelated_NoMark(effCB, visitedSymbols, related, relatedSymbolIdx + 1,
                                   groupedTransactions)
         ELSE attachRelated_NoMark(
                  appendCostBasis(effCB,
                      newCostBasis(relatedSymbol, lookup(groupedTransactions, relatedSymbol))),
                  visitedSymbols, related, relatedSymbolIdx + 1,
                  groupedTransactions)

\* getEffectiveCostBasis' inner loop over the related symbols of one base,
\* from index relatedSymbolIdx on: the base's CostBasis and the visited set
RECURSIVE attachRelated(_, _, _, _, _)
attachRelated(effCB, visitedSymbols, related, relatedSymbolIdx, groupedTransactions) ==
    IF relatedSymbolIdx > Len(related)
    THEN [effCB |-> effCB, visitedSymbols |-> visitedSymbols]
    ELSE LET relatedSymbol == related[relatedSymbolIdx] IN
         IF relatedSymbol \in visitedSymbols
         THEN attachRelated(effCB, visitedSymbols, related, relatedSymbolIdx + 1,
                            groupedTransactions)
         ELSE attachRelated(
                  appendCostBasis(effCB,
                      newCostBasis(relatedSymbol, lookup(groupedTransactions, relatedSymbol))),
                  visitedSymbols \cup {relatedSymbol}, related, relatedSymbolIdx + 1,
                  groupedTransactions)

\* the mutant lacks the guard clause of the first loop: a base that is already
\* attached to another base is made a top-level record too
RECURSIVE groupBases_NoGuard(_, _, _, _, _, _)
groupBases_NoGuard(baseOrder, i, results, visitedSymbols, related, groupedTransactions) ==
    IF i > Len(baseOrder)
    THEN [results |-> results, visitedSymbols |-> visitedSymbols]
    ELSE LET symbol == baseOrder[i]
             effCB  == newCostBasis(symbol, lookup(groupedTransactions, symbol))
             done   == attachRelated(effCB, visitedSymbols \cup {symbol},
                                     related[symbol], 1, groupedTransactions)
         IN  groupBases_NoGuard(baseOrder, i + 1, Append(results, done.effCB),
                                done.visitedSymbols, related, groupedTransactions)

\* getEffectiveCostBasis' first loop, over the keys of relatedSymbols in the
\* order baseOrder, from index i on
RECURSIVE groupBases(_, _, _, _, _, _)
groupBases(baseOrder, i, results, visitedSymbols, related, groupedTransactions) ==
    IF i > Len(baseOrder)
    THEN [results |-> results, visitedSymbols |-> visitedSymbols]
    ELSE LET symbol == baseOrder[i] IN
         IF symbol \in visitedSymbols
         THEN groupBases(baseOrder, i + 1, results, visitedSymbols, related,
                         groupedTransactions)
         ELSE LET effCB == newCostBasis(symbol, lookup(groupedTransactions, symbol))
                  done  == attachRelated(effCB, visitedSymbols \cup {symbol},
                                         related[symbol], 1, groupedTransactions)
              IN  groupBases(baseOrder, i + 1, Append(results, done.effCB),
                             done.visitedSymbols, related, groupedTransactions)

\* getEffectiveCostBasis' second loop, over the keys of groupedTransactions in
\* the order restOrder, from index i on
RECURSIVE addUnvisited(_, _, _, _, _)
addUnvisited(restOrder, i, results, visitedSymbols, groupedTransactions) ==
    IF i > Len(restOrder) THEN results
    ELSE LET symbol == restOrder[i] IN
         IF symbol \in visitedSymbols
         THEN addUnvisited(restOrder, i + 1, results, visitedSymbols, groupedTransactions)
         ELSE addUnvisited(restOrder, i + 1,
                           Append(results, newCostBasis(symbol, groupedTransactions[symbol])),
                           visitedSymbols, groupedTransactions)

\* getEffectiveCostBasis(relatedSymbols, groupedTransactions) when the first
\* range loop visits the keys in the order baseOrder and the second in restOrder
getEffectiveCostBasis(baseOrder, restOrder, related, groupedTransactions) ==
    LET first == groupBases(baseOrder, 1, <<>>, {}, related, groupedTransactions)
    IN  addUnvisited(restOrder, 1, first.results, first.visitedSymbols, groupedTransactions)

-----------------------------------------------------------------------------
(* Statistics summarizer *)

\* the mutant counts a record with EffPL = 0 as profitable
RECURSIVE statsLoop_CountsZero(_, _, _, _, _)
statsLoop_CountsZero(list, i, profitPosPct, largestGain, largestLoss) ==
    IF i > Len(list)
    THEN [profitPosPct |-> profitPosPct, largestGain |-> largestGain,
          largestLoss |-> largestLoss]
    ELSE LET position == list[i]
             profit   == IF position.EffPL >= 0 THEN profitPosPct + 1 ELSE profitPosPct
             closed   == position.Position = 0
             gain     == IF closed /\ (largestGain = Nil \/ position.EffPL > largestGain.EffPL)
                         THEN position ELSE largestGain
             loss     == IF closed /\ (largestLoss = Nil
                                       \/ (position.EffPL < 0
                                           /\ position.EffPL < largestLoss.EffPL))
                         THEN position ELSE largestLoss
         IN  statsLoop_CountsZero(list, i + 1, profit, gain, loss)

\* newTransactionStats' loop from index i on
RECURSIVE statsLoop(_, _, _, _, _)
statsLoop(list, i, profitPosPct, largestGain, largestLoss) ==
    IF i > Len(list)
    THEN [profitPosPct |-> profitPosPct, largestGain |-> largestGain,
          largestLoss |-> largestLoss]
    ELSE LET position == list[i]
             profit   == IF position.EffPL > 0 THEN profitPosPct + 1 ELSE profitPosPct
             closed   == position.Position = 0
             gain     == IF closed /\ (largestGain = Nil \/ position.EffPL > largestGain.EffPL)
                         THEN position ELSE largestGain
             loss     == IF closed /\ (largestLoss = Nil
                                       \/ (position.EffPL < 0
                                           /\ position.EffPL < largestLoss.EffPL))
                         THEN position ELSE largestLoss
         IN  statsLoop(list, i + 1, profit, gain, loss)

\* newTransactionStats(cb); the percentage is the quotient count/len(cb) times
\* 100, and Quo panics on 0/0
newTransactionStats(list) ==
    LET r   == statsLoop(list, 1, 0, Nil, Nil)
        quo == Quo(r.profitPosPct, Len(list))
    IN  IF quo.kind = "panic" THEN Panic
        ELSE [CostBasis             |-> list,
              ProfitablePositionPct |-> [num |-> 100 * r.profitPosPct, den |-> Len(list)],
              LargestGainPosition   |-> r.largestGain,
              LargestLossPosition   |-> r.largestLoss]

-----------------------------------------------------------------------------
(* Configuration and loading *)

\* newConfig()
newConfig == [TransactionsFile |-> "transactions.csv"]

\* what ./config.json may be: absent (os.Open fails), unreadable (ReadAll
\* fails), no JSON at all, the JSON literal null, an object without the
\* transactionsFile key, an object that names another file
ConfigFiles ==
    {[kind |-> "absent", transactionsFile |-> ""],
     [kind |-> "unreadable", transactionsFile |-> ""],
     [kind |-> "invalid", transactionsFile |-> ""],
     [kind |-> "null", transactionsFile |-> ""],
     [kind |-> "object", transactionsFile |-> ""],
     [kind |-> "object", transactionsFile |-> "my.csv"]}

\* getConfigs(): the pair (*config, error).  json.Unmarshal(bytes, &config)
\* decodes into the pointer variable itself: it leaves config alone when the
\* bytes are no JSON (its error is dropped), sets config to nil for the
\* literal null, and assigns the fields an object has.  The err returned after
\* it is ReadAll's, which is nil.
getConfigs(file) ==
    IF file.kind \in {"absent", "unreadable"} THEN [config |-> newConfig, err |-> TRUE]
    ELSE IF file.kind = "invalid" THEN [config |-> newConfig, err |-> FALSE]
    ELSE IF file.kind = "null" THEN [config |-> Nil, err |-> FALSE]
    ELSE [config |-> IF file.transactionsFile # ""
                     THEN [TransactionsFile |-> file.transactionsFile]
                     ELSE newConfig,
          err |-> FALSE]

SentinelDate == <<"D", "A", "T", "E">>
SentinelEOF ==
    <<"*", "*", "*", "E", "N", "D", " ", "O", "F", " ", "F", "I", "L", "E", "*", "*", "*">>

\* the mutant ends the loop at the end-of-file row
RECURSIVE readRows_StopsAtEOF(_, _, _)
readRows_StopsAtEOF(records, i, list) ==
    IF i > Len(records) THEN list
    ELSE LET record == records[i] IN
         IF record[1] = SentinelEOF THEN list
         ELSE IF record[1] = SentinelDate
         THEN readRows_StopsAtEOF(records, i + 1, list)
         ELSE readRows_StopsAtEOF(records, i + 1, Append(list, NewTradeTDA(record).t))

\* loadTransactions' loop over the records of the csv reader, from record i
\* on: the transaction of every row that is no sentinel is appended, the nil
\* of a row that newTransactionTDA rejects included
RECURSIVE readRows(_, _, _)
readRows(records, i, list) ==
    IF i > Len(records) THEN list
    ELSE LET record == records[i] IN
         IF record[1] = SentinelDate \/ record[1] = SentinelEOF
         THEN readRows(records, i + 1, list)
         ELSE readRows(records, i + 1, Append(list, NewTradeTDA(record).t))

\* loadTransactions(c): the pair ([]*transaction, error); c.TransactionsFile
\* of a nil c is a nil-pointer dereference; os.Open fails when no file is at
\* c.TransactionsFile
loadTransactions(c, path, records) ==
    IF c = Nil THEN Panic
    ELSE IF c.TransactionsFile # path THEN [transactions |-> <<>>, err |-> TRUE]
    ELSE [transactions |-> readRows(records, 1, <<>>), err |-> FALSE]

-----------------------------------------------------------------------------
(* Inputs *)

DateOK == <<"0", "1", "/", "1", "5", "/", "2", "0", "2", "4">>
\* day and month swapped: month 15
DateSwapped == <<"1", "5", "/", "0", "1", "/", "2", "0", "2", "4">>
\* 30 February
DateNoSuchDay == <<"0", "2", "/", "3", "0", "/", "2", "0", "2", "4">>

BoughtShares == Bought \o <<" ", "1">>
SoldShares == <<"S", "o", "l", "d", " ", "1">>

\* a csv record with the nine leading columns of a TD Ameritrade export
Record(date, description, quantity, symbol, price, commission, amount, regFee) ==
    <<date, <<"7">>, description, quantity, symbol, price, commission, amount, regFee>>

\* the symbol column of the rows of the pipeline: an underlying, an option on
\* it, a symbol that extends the option's, a symbol that only shares letters
\* with the underlying (padded), and a blank
MainSymbols ==
    {<<"A">>, <<"A", " ", "B">>, <<"A", " ", "B", " ", "C">>, <<"A", "B", " ">>, <<" ">>}

MainRows ==
    {Record(DateOK, BoughtShares, <<"1">>, sym, <<"3">>, <<"0">>, <<"-", "3">>, <<"0">>) :
        sym \in MainSymbols}
    \cup {Record(DateOK, SoldShares, <<"1">>, sym, <<"2">>, <<"0">>, <<"2">>, <<"0">>) :
        sym \in MainSymbols}
    \cup {Record(DateSwapped, BoughtShares, <<"1">>, <<"A">>, <<"3">>, <<"0">>, <<"-", "3">>, <<"0">>),
          Record(SentinelDate, <<>>, <<>>, <<>>, <<>>, <<>>, <<>>, <<>>),
          Record(SentinelEOF, <<>>, <<>>, <<>>, <<>>, <<>>, <<>>, <<>>)}

SeqsUpTo(S, n) == UNION {[1..k -> S] : k \in 0..n}

\* the rows of the parser specification
ParseRows ==
    {Record(date, description, quantity, <<"A">>, price, commission, amount, regFee) :
        date \in {DateOK, DateSwapped, DateNoSuchDay},
        description \in {BoughtShares, SoldShares, <<>>},
        quantity \in {<<"5">>, <<"-", "5">>, <<"0">>, <<"x">>},
        price \in {<<"7">>, <<>>},
        commission \in {<<"1">>, <<"1", "x">>},
        amount \in {<<"-", "3">>, <<"-">>},
        regFee \in {<<"0">>, <<"x">>}}

\* the trades a CostBasis of the cost-basis specification is built from
CBTrades ==
    {NewTradeTDA(Record(DateOK, BoughtShares, <<"1">>, <<"A">>, <<"3">>, <<"0">>,
                        <<"-", "3">>, <<"0">>)).t,
     NewTradeTDA(Record(DateOK, SoldShares, <<"1">>, <<"A">>, <<"2">>, <<"0">>,
                        <<"2">>, <<"0">>)).t,
     Nil}

\* the arguments of appendCostBasis in the cost-basis specification
CBRelated ==
    {newCostBasis(<<"A", " ", "B">>, <<t>>) : t \in CBTrades \ {Nil}} \cup {Nil}

-----------------------------------------------------------------------------
(* main: one action per call *)

Init ==
    /\ pc = "getConfigs"
    /\ configFile \in ConfigFiles
    /\ csvPath \in {"transactions.csv", "my.csv"}
    /\ csv \in SeqsUpTo(MainRows, MaxRows)
    /\ configs = Unused
    /\ configErr = Unused
    /\ transactions = Unused
    /\ groupedSymbols = Unused
    /\ relatedSymbols = Unused
    /\ cb = Unused
    /\ stats = Unused
    /\ row = Unused /\ trade = Unused /\ transaction = Unused
    /\ e = Unused /\ avgCost = Unused

\* configs, err := getConfigs(); an error is reported and the run goes on
GetConfigs ==
    /\ pc = "getConfigs"
    /\ configs' = getConfigs(configFile).config
    /\ configErr' = getConfigs(configFile).err
    /\ pc' = "loadTransactions"
    /\ UNCHANGED <<configFile, csvPath, csv, transactions, groupedSymbols,
                   relatedSymbols, cb, stats, parseVars, cbVars>>

\* transactions, err := loadTransactions(configs); os.Exit(1) on an error
LoadTransactions ==
    /\ pc = "loadTransactions"
    /\ LET r == loadTransactions(configs, csvPath, csv) IN
         IF r = Panic
         THEN transactions' = Panic /\ pc' = "panic"
         ELSE /\ transactions' = r.transactions
              /\ pc' = IF r.err THEN "exit1" ELSE "groupSymbols"
    /\ UNCHANGED <<configFile, csvPath, csv, configs, configErr, groupedSymbols,
                   relatedSymbols, cb, stats, parseVars, cbVars>>

\* groupedSymbols := groupSymbols(transactions)
GroupSymbols ==
    /\ pc = "groupSymbols"
    /\ LET r == groupSymbols(transactions) IN
         /\ groupedSymbols' = r
         /\ pc' = IF r = Panic THEN "panic" ELSE "groupRelatedSymbols"
    /\ UNCHANGED <<configFile, csvPath, csv, configs, configErr, transactions,
                   relatedSymbols, cb, stats, parseVars, cbVars>>

\* relatedSymbols := groupRelatedSymbols(groupedSymbols)
GroupRelatedSymbols ==
    /\ pc = "groupRelatedSymbols"
    /\ relatedSymbols' \in groupRelatedSymbols(groupedSymbols)
    /\ pc' = "getEffectiveCostBasis"
    /\ UNCHANGED <<configFile, csvPath, csv, configs, configErr, transactions,
                   groupedSymbols, cb, stats, parseVars, cbVars>>

\* cb := getEffectiveCostBasis(relatedSymbols, groupedSymbols), the two range
\* loops visiting the maps in any order
GetEffectiveCostBasis ==
    /\ pc = "getEffectiveCostBasis"
    /\ \E baseOrder \in Orders(DOMAIN relatedSymbols),
          restOrder \in Orders(DOMAIN groupedSymbols) :
         cb' = getEffectiveCostBasis(baseOrder, restOrder, relatedSymbols, groupedSymbols)
    /\ pc' = "newTransactionStats"
    /\ UNCHANGED <<configFile, csvPath, csv, configs, configErr, transactions,
                   groupedSymbols, relatedSymbols, stats, parseVars, cbVars>>

\* stats := newTransactionStats(cb), then the output is serialized and printed
NewTransactionStats ==
    /\ pc = "newTransactionStats"
    /\ LET r == newTransactionStats(cb) IN
         /\ stats' = r
         /\ pc' = IF r = Panic THEN "panic" ELSE "done"
    /\ UNCHANGED <<configFile, csvPath, csv, configs, configErr, transactions,
                   groupedSymbols, relatedSymbols, cb, parseVars, cbVars>>

Next ==
    \/ GetConfigs
    \/ LoadTransactions
    \/ GroupSymbols
    \/ GroupRelatedSymbols
    \/ GetEffectiveCostBasis
    \/ NewTransactionStats

Spec == Init /\ [][Next]_vars

-----------------------------------------------------------------------------
(* The row parsers on one row *)

InitParse ==
    /\ pc = "row"
    /\ row \in ParseRows
    /\ trade = Unused
    /\ transaction = Unused
    /\ configFile = Unused /\ csvPath = Unused /\ csv = Unused
    /\ configs = Unused /\ configErr = Unused /\ transactions = Unused
    /\ groupedSymbols = Unused /\ relatedSymbols = Unused /\ cb = Unused
    /\ stats = Unused
    /\ e = Unused /\ avgCost = Unused

\* nextTransaction, err := newTransactionTDA(record)
ParseTrade ==
    /\ pc = "row"
    /\ trade' = NewTradeTDA(row)
    /\ pc' = "trade"
    /\ UNCHANGED <<mainVars, row, transaction, cbVars>>

\* transaction, err := NewTransaction(&newRecord) of the map-keyed loader
ParseTransaction ==
    /\ pc = "trade"
    /\ transaction' = NewTransaction(RowAsMap(row))
    /\ pc' = "parsed"
    /\ UNCHANGED <<mainVars, row, trade, cbVars>>

NextParse == ParseTrade \/ ParseTransaction

SpecParse == InitParse /\ [][NextParse]_vars

-----------------------------------------------------------------------------
(* One CostBasis: construction, attachments, average cost *)

InitCB ==
    /\ pc = "costBasis"
    /\ e \in {newCostBasis(<<"A">>, trans) : trans \in SeqsUpTo(CBTrades, MaxTrades)}
    /\ avgCost = Unused
    /\ configFile = Unused /\ csvPath = Unused /\ csv = Unused
    /\ configs = Unused /\ configErr = Unused /\ transactions = Unused
    /\ groupedSymbols = Unused /\ relatedSymbols = Unused /\ cb = Unused
    /\ stats = Unused
    /\ row = Unused /\ trade = Unused /\ transaction = Unused

\* e.appendCostBasis(cb)
AppendCostBasis ==
    /\ pc = "costBasis"
    /\ Len(e.RelatedPositions) < MaxRelated
    /\ \E c \in CBRelated : e' = appendCostBasis(e, c)
    /\ UNCHANGED <<pc, avgCost, mainVars, parseVars>>

\* e.getAvgCost()
GetAvgCost ==
    /\ pc = "costBasis"
    /\ avgCost' = [call |-> "getAvgCost", outcome |-> getAvgCost(e)]
    /\ UNCHANGED <<pc, e, mainVars, parseVars>>

\* e.getEffAvgCost()
GetEffAvgCost ==
    /\ pc = "costBasis"
    /\ avgCost' = [call |-> "getEffAvgCost", outcome |-> getEffAvgCost(e)]
    /\ UNCHANGED <<pc, e, mainVars, parseVars>>

NextCB == AppendCostBasis \/ GetAvgCost \/ GetEffAvgCost

SpecCB == InitCB /\ [][NextCB]_vars

-----------------------------------------------------------------------------
(* Vocabulary of the properties *)

\* main has called getEffectiveCostBasis
Aggregated == pc \in {"newTransactionStats", "done"} \/ (pc = "panic" /\ stats = Panic)

\* main has called groupRelatedSymbols
Related == pc = "getEffectiveCostBasis" \/ Aggregated

\* main has called loadTransactions and it returned no error
Loaded == pc = "groupSymbols" \/ (pc = "panic" /\ groupedSymbols = Panic) \/ Related

\* the places of the output list: <<i, 0>> is the i-th top-level record,
\* <<i, j>> the j-th related position of it
Places(list) ==
    {<<i, 0>> : i \in 1..Len(list)}
    \cup UNION {{<<i, j>> : j \in 1..Len(list[i].RelatedPositions)} : i \in 1..Len(list)}

RecordAt(list, p) == IF p[2] = 0 THEN list[p[1]] ELSE list[p[1]].RelatedPositions[p[2]]

\* B is A, one space, and something more
BeginsWithThenSpace(B, A) ==
    /\ Len(B) > Len(A)
    /\ \A i \in 1..Len(A) : B[i] = A[i]
    /\ B[Len(A) + 1] = " "

\* B is in the list the relationship map holds for A
ListedUnder(B, A) ==
    /\ A \in DOMAIN relatedSymbols
    /\ \E i \in 1..Len(relatedSymbols[A]) : relatedSymbols[A][i] = B

\* the sum of the amounts of a symbol's own trades
OwnPL(symbol) == sumAmount(groupedSymbols[symbol])

RECURSIVE SumOver(_, _)
SumOver(f, S) ==
    IF S = {} THEN 0
    ELSE LET x == CHOOSE y \in S : TRUE IN f[x] + SumOver(f, S \ {x})

\* the three symbols of a chain
SymA == <<"A">>
SymAB == <<"A", " ", "B">>
SymABC == <<"A", " ", "B", " ", "C">>

-----------------------------------------------------------------------------
(* C1 *)

-----------------------------------------------------------------------------
(* C2 *)

RECURSIVE SumPL(_)
SumPL(list) ==
    IF list = <<>> THEN 0
    ELSE (IF Head(list) = Nil THEN 0 ELSE Head(list).PL) + SumPL(Tail(list))

\* C2: after newCostBasis and after any sequence of appendCostBasis calls, EffPL
\* equals PL plus the sum of the PL of the records in RelatedPositions.
C2_EffPLIsPLPlusRelated ==
    pc = "costBasis" => e.EffPL = e.PL + SumPL(e.RelatedPositions)

\* C2 witness: a record with a non-zero PL after two attachments of records
\* with a non-zero PL.
C2_Witness ==
    /\ pc = "costBasis"
    /\ e.PL # 0
    /\ Len(e.RelatedPositions) >= 2
    /\ \A i \in 1..Len(e.RelatedPositions) :
          e.RelatedPositions[i] # Nil /\ e.RelatedPositions[i].PL # 0

-----------------------------------------------------------------------------
(* C3 *)

\* C3: for every key A of the relationship map the output holds a CostBasis for
\* A whose EffPL is A's own PL plus the PL of every symbol listed under A.
C3_EffPLCombinesAllRelated ==
    Aggregated =>
        \A A \in DOMAIN relatedSymbols :
            \E p \in Places(cb) :
                /\ RecordAt(cb, p).Symbol = A
                /\ RecordAt(cb, p).EffPL =
                       OwnPL(A) + SumOver([B \in DOMAIN groupedSymbols |-> OwnPL(B)],
                                          {B \in DOMAIN groupedSymbols : ListedUnder(B, A)})

-----------------------------------------------------------------------------
(* C4 *)

\* C4: groupRelatedSymbols returns exactly the map in which, for distinct keys
\* A and B of the grouping, B is listed under A iff B begins with A followed by
\* a space, once; a symbol that no key extends is no key of the map.
C4_RelatedIffPrefixAndSpace ==
    Related =>
        /\ DOMAIN relatedSymbols \subseteq DOMAIN groupedSymbols
        /\ \A A, B \in DOMAIN groupedSymbols :
              A # B => (ListedUnder(B, A) <=> BeginsWithThenSpace(B, A))
        /\ \A A \in DOMAIN groupedSymbols :
              A \in DOMAIN relatedSymbols <=>
                  \E B \in DOMAIN groupedSymbols : B # A /\ BeginsWithThenSpace(B, A)
        /\ \A A \in DOMAIN relatedSymbols :
              /\ Len(relatedSymbols[A]) > 0
              /\ \A i, j \in 1..Len(relatedSymbols[A]) :
                    /\ relatedSymbols[A][i] \in DOMAIN groupedSymbols \ {A}
                    /\ relatedSymbols[A][i] = relatedSymbols[A][j] => i = j

\* C4 witness: a grouping with a base, a symbol listed under it and a symbol
\* that begins with the base's letters but not with the base and a space.
C4_Witness ==
    /\ Related
    /\ ListedUnder(SymAB, SymA)
    /\ <<"A", "B">> \in DOMAIN groupedSymbols
    /\ SymAB \notin DOMAIN relatedSymbols

-----------------------------------------------------------------------------
(* C5 *)

\* C5 as stated: if C is listed under B and B under A, C is not listed under A.
C5_OneLevelOnly ==
    Related =>
        \A A, B, C \in DOMAIN groupedSymbols :
            (ListedUnder(C, B) /\ ListedUnder(B, A)) => ~ListedUnder(C, A)

\* C5 as amended: the map holds every prefix match, direct or through a chain:
\* if C is listed under B and B is listed under A, C is listed under A as well.
C5_ChainsAreListed ==
    Related =>
        \A A, B, C \in DOMAIN groupedSymbols :
            (ListedUnder(C, B) /\ ListedUnder(B, A)) => ListedUnder(C, A)

\* C5 witness: a chain of three symbols in the relationship map.
C5_Witness ==
    /\ Related
    /\ ListedUnder(SymABC, SymAB)
    /\ ListedUnder(SymAB, SymA)

-----------------------------------------------------------------------------
(* C6 *)

\* what C6 compares: the top-level records as a set, each by its symbol, the
\* set of its related symbols and its EffPL
RecordSet(list) ==
    {[Symbol  |-> list[i].Symbol,
      Related |-> {list[i].RelatedPositions[j].Symbol :
                      j \in 1..Len(list[i].RelatedPositions)},
      EffPL   |-> list[i].EffPL] : i \in 1..Len(list)}

\* C6: for the relationship map and grouping of the run, every order of the
\* range loops yields the same set of top-level records as the order taken.
C6_OrderChangesOnlyTheOrder ==
    Aggregated =>
        \A baseOrder \in Orders(DOMAIN relatedSymbols) :
            \A restOrder \in Orders(DOMAIN groupedSymbols) :
                RecordSet(getEffectiveCostBasis(baseOrder, restOrder, relatedSymbols,
                                                groupedSymbols))
                    = RecordSet(cb)

-----------------------------------------------------------------------------
(* C7 *)

\* the rows of the csv that are data rows with a date that parses
GoodRows ==
    {i \in 1..Len(csv) : /\ csv[i][1] \notin {SentinelDate, SentinelEOF}
                         /\ ~TimeParse(csv[i][1]).err}

\* C7: a row whose date does not parse adds no entry of any kind to the
\* transactions, and the run does not abort in the pipeline after the load.
C7_BadDateRowIsDropped ==
    /\ Loaded => /\ \A i \in 1..Len(transactions) : transactions[i] # Nil
                 /\ Len(transactions) = Cardinality(GoodRows)
    /\ ~(pc = "panic" /\ groupedSymbols = Panic)

-----------------------------------------------------------------------------
(* C8 *)

\* C8: the quantity of an accepted row is >= 0 when the description starts
\* with "Bought" and <= 0 when it does not, whatever the raw quantity.
C8_SignFromDescription ==
    (pc # "row" /\ ~trade.err) =>
        IF HasPrefix(row[3], Bought) THEN trade.t.Quantity >= 0
                                     ELSE trade.t.Quantity <= 0

-----------------------------------------------------------------------------
(* C9 *)

\* the value a numeric column is to give its field: zero when the text does
\* not parse, the parsed number otherwise
ValueOrZero(text) == IF ParseFloat(text).err THEN 0 ELSE ParseFloat(text).f

\* what NewTradeTDA is to produce for a row whose date parses: a Trade, zero
\* in each numeric field that does not parse, the parsed value elsewhere (the
\* quantity negated unless the description starts with "Bought")
DefaultsToZero ==
    /\ ~trade.err
    /\ trade.t # Nil
    /\ trade.t.Date = TimeParse(row[1]).t
    /\ trade.t.Description = row[3]
    /\ trade.t.Symbol = row[5]
    /\ trade.t.Quantity = IF HasPrefix(row[3], Bought) THEN ValueOrZero(row[4])
                                                       ELSE 0 - ValueOrZero(row[4])
    /\ trade.t.Price = ValueOrZero(row[6])
    /\ trade.t.Commission = ValueOrZero(row[7])
    /\ trade.t.Amount = ValueOrZero(row[8])

-----------------------------------------------------------------------------
(* C10 *)

\* C10: getAvgCost and getEffAvgCost of a CostBasis whose Position is zero end
\* in an error outcome, never in a value.
C10_ZeroPositionIsAnError ==
    (pc = "costBasis" /\ avgCost # Unused /\ e.Position = 0) =>
        avgCost.outcome.kind # "value"

-----------------------------------------------------------------------------
(* newTransactionStats on a list of its own *)

\* a text for each quantity and amount of the records of the list
StatsQuantities == {<<"0">>, <<"1">>}
StatsAmounts == {<<"-", "2">>, <<"-", "1">>, <<"0">>, <<"1">>, <<"2">>}

\* the symbol of the i-th record of the list: no two records share a symbol
StatsSymbol(i) == <<"S", CHOOSE c \in Digits : DigitVal(c) = i>>

\* the i-th record: the CostBasis of one purchase of the given quantity and
\* amount
StatsRecord(i, quantity, amount) ==
    newCostBasis(StatsSymbol(i),
        <<NewTradeTDA(Record(DateOK, BoughtShares, quantity, StatsSymbol(i), <<"1">>,
                             <<"0">>, amount, <<"0">>)).t>>)

StatsLists ==
    UNION {{[i \in 1..n |-> StatsRecord(i, k[i][1], k[i][2])] :
               k \in [1..n -> StatsQuantities \X StatsAmounts]} : n \in 0..MaxList}

InitStats ==
    /\ pc = "newTransactionStats"
    /\ cb \in StatsLists
    /\ stats = Unused
    /\ configFile = Unused /\ csvPath = Unused /\ csv = Unused
    /\ configs = Unused /\ configErr = Unused /\ transactions = Unused
    /\ groupedSymbols = Unused /\ relatedSymbols = Unused
    /\ row = Unused /\ trade = Unused /\ transaction = Unused
    /\ e = Unused /\ avgCost = Unused

NextStats == NewTransactionStats

SpecStats == InitStats /\ [][NextStats]_vars

\* newTransactionStats has been called on cb
StatsCalled == pc = "done" \/ (pc = "panic" /\ stats = Panic)

\* the indices of the closed records, and of the closed records with a loss
Closed == {i \in 1..Len(cb) : cb[i].Position = 0}
ClosedLosses == {i \in Closed : cb[i].EffPL < 0}

\* the first index of I at which EffPL is least / greatest over I
FirstMin(I) ==
    CHOOSE i \in I : \A j \in I : cb[j].EffPL > cb[i].EffPL \/ (cb[j].EffPL = cb[i].EffPL /\ j >= i)
FirstMax(I) ==
    CHOOSE i \in I : \A j \in I : cb[j].EffPL < cb[i].EffPL \/ (cb[j].EffPL = cb[i].EffPL /\ j >= i)

-----------------------------------------------------------------------------
(* C11 *)

\* C11: LargestLossPosition is the first record that is closed, has EffPL < 0
\* and has the least EffPL among the closed records with EffPL < 0, and is nil
\* when no record is closed with EffPL < 0.  Stated of the lists that have a
\* record: on the empty list the call panics before it sets any field.
C11_LargestLossIsFirstLeastClosedLoss ==
    (StatsCalled /\ Len(cb) > 0) =>
        /\ stats # Panic
        /\ stats.LargestLossPosition =
               IF ClosedLosses = {} THEN Nil ELSE cb[FirstMin(ClosedLosses)]

-----------------------------------------------------------------------------
(* C12 *)

\* C12: for every list, LargestGainPosition is the first record whose EffPL is
\* greatest among the closed records, never an open record, and nil when the
\* list has no closed record.
C12_LargestGainIsFirstGreatestClosed ==
    StatsCalled =>
        /\ stats # Panic
        /\ stats.LargestGainPosition =
               IF Closed = {} THEN Nil ELSE cb[FirstMax(Closed)]

\* the same for the lists that have a record
C12_OfNonEmptyLists ==
    (StatsCalled /\ Len(cb) > 0) =>
        /\ stats # Panic
        /\ stats.LargestGainPosition =
               IF Closed = {} THEN Nil ELSE cb[FirstMax(Closed)]

-----------------------------------------------------------------------------
(* C13 *)

\* C13: for every non-empty list, ProfitablePositionPct is 100 times the number
\* of records with EffPL > 0 divided by the number of all records.
C13_PctOfAllRecords ==
    (StatsCalled /\ Len(cb) > 0) =>
        /\ stats # Panic
        /\ stats.ProfitablePositionPct.den # 0
        /\ stats.ProfitablePositionPct.num * Len(cb)
               = 100 * Cardinality({i \in 1..Len(cb) : cb[i].EffPL > 0})
                     * stats.ProfitablePositionPct.den

\* C13 witness: statistics of a list with an open profitable record, a closed
\* record with EffPL = 0 and a record with a loss.
C13_Witness ==
    /\ StatsCalled
    /\ Len(cb) >= 3
    /\ \E i \in 1..Len(cb) : cb[i].EffPL > 0 /\ cb[i].Position # 0
    /\ \E i \in 1..Len(cb) : cb[i].EffPL = 0 /\ cb[i].Position = 0
    /\ \E i \in 1..Len(cb) : cb[i].EffPL < 0
    /\ stats.ProfitablePositionPct.num > 0

-----------------------------------------------------------------------------
(* groupSymbols on a list of trades of its own *)

\* the symbol column of the trades: padded, blank and empty symbols included
GroupSymbolTexts ==
    {<<"A">>, <<" ", "A">>, <<"A", " ">>, <<"A", " ", "B">>, <<" ">>, <<>>}

\* the amount column of the trades: it tells two trades of a symbol apart
GroupAmounts == {<<"1">>, <<"2">>}

GroupTrades ==
    {NewTradeTDA(Record(DateOK, BoughtShares, <<"1">>, symbol, <<"1">>, <<"0">>,
                        amount, <<"0">>)).t :
        symbol \in GroupSymbolTexts, amount \in GroupAmounts}

InitGroup ==
    /\ pc = "groupSymbols"
    /\ transactions \in SeqsUpTo(GroupTrades, MaxRows)
    /\ groupedSymbols = Unused
    /\ configFile = Unused /\ csvPath = Unused /\ csv = Unused
    /\ configs = Unused /\ configErr = Unused
    /\ relatedSymbols = Unused /\ cb = Unused /\ stats = Unused
    /\ row = Unused /\ trade = Unused /\ transaction = Unused
    /\ e = Unused /\ avgCost = Unused

NextGroup == GroupSymbols

SpecGroup == InitGroup /\ [][NextGroup]_vars

\* groupSymbols has returned its map
Grouped == pc = "groupRelatedSymbols" \/ Related

\* the trimmed symbols of the input trades that are not empty
TrimmedSymbols ==
    {TrimSpace(transactions[i].Symbol) : i \in 1..Len(transactions)} \ {<<>>}

\* the input trades of one trimmed symbol, in input order
TradesOf(symbol) ==
    LET Has(t) == TrimSpace(t.Symbol) = symbol IN SelectSeq(transactions, Has)

-----------------------------------------------------------------------------
(* C14 *)

\* C14: groupSymbols partitions its input.  Its keys are the non-empty trimmed
\* symbols of the input; the group of a key is the input with every trade of
\* another trimmed symbol struck out, so it holds each trade of its symbol once
\* for each time the input has it, in input order, and nothing else; a trade
\* whose trimmed symbol is empty is in no group.
C14_GroupsPartitionTheInput ==
    Grouped =>
        /\ DOMAIN groupedSymbols = TrimmedSymbols
        /\ \A symbol \in DOMAIN groupedSymbols :
               groupedSymbols[symbol] = TradesOf(symbol)
        /\ \A symbol \in DOMAIN groupedSymbols :
               \A j \in 1..Len(groupedSymbols[symbol]) :
                   TrimSpace(groupedSymbols[symbol][j].Symbol) # <<>>

\* C14 witness: two different trades of the padded symbol "A", a trade of
\* another symbol between them and a trade of a blank symbol, grouped.
C14_Witness ==
    /\ Grouped
    /\ Len(transactions) = 3
    /\ TrimSpace(transactions[1].Symbol) = <<"A">>
    /\ transactions[1].Symbol # <<"A">>
    /\ TrimSpace(transactions[2].Symbol) = <<>>
    /\ TrimSpace(transactions[3].Symbol) = <<"A">>
    /\ transactions[3] # transactions[1]
    /\ groupedSymbols[<<"A">>] = <<transactions[1], transactions[3]>>

-----------------------------------------------------------------------------
(* C15 *)

\* e.appendCostBasis(cb) has just run: it is the one step that changes e
Attached == e' # e

\* the sums of quantity and amount over the record's own Transactions
OwnSums(rcv) ==
    /\ rcv.Position = sumQuantity(rcv.Transactions)
    /\ rcv.PL = sumAmount(rcv.Transactions)

\* C15: Position and PL of a CostBasis are the sums of quantity and amount over
\* its own Transactions, before and after every step; a call of appendCostBasis
\* changes EffPL and RelatedPositions of the receiver and nothing else of it,
\* and the record it appends is the argument as it was passed, behind the
\* records attached before, which stay as they were.
C15_AttachmentKeepsPositionAndPL ==
    [][/\ pc = "costBasis" => OwnSums(e) /\ OwnSums(e')
       /\ Attached =>
              \E c \in CBRelated :
                  e' = [e EXCEPT !.RelatedPositions = Append(e.RelatedPositions, c),
                                 !.EffPL = e'.EffPL]]_vars

\* C15 witness: a record with a non-zero Position and PL, built from two trades,
\* with two attached records whose PL is not zero.
C15_Witness ==
    /\ pc = "costBasis"
    /\ Len(e.Transactions) = 2
    /\ e.Position # 0 /\ e.PL # 0
    /\ Len(e.RelatedPositions) = 2
    /\ \A i \in 1..2 : e.RelatedPositions[i] # Nil /\ e.RelatedPositions[i].PL # 0
    /\ e.EffPL # e.PL

-----------------------------------------------------------------------------
(* C16 *)

\* the first column of the row is one of the two sentinels
IsSentinel(r) == r[1] = SentinelDate \/ r[1] = SentinelEOF

\* the rows of the csv that are no sentinel rows, in file order
DataRows == LET Data(r) == ~IsSentinel(r) IN SelectSeq(csv, Data)

\* C16: the loaded transactions are, entry for entry and in file order, what
\* the row parser returns for the rows that are no sentinel rows: a "DATE" or
\* "***END OF FILE***" row adds no entry wherever it stands, the rows after it
\* are loaded, and it is no error of the load.
C16_SentinelRowsAreSkippedAnywhere ==
    /\ Loaded =>
           /\ Len(transactions) = Len(DataRows)
           /\ \A i \in 1..Len(DataRows) : transactions[i] = NewTradeTDA(DataRows[i]).t
    /\ (pc = "exit1" /\ configs # Nil) => configs.TransactionsFile # csvPath

\* C16 witness: a file that starts with the end-of-file row, has the header
\* row second and a data row last, loaded: the one transaction is the data
\* row's.
C16_Witness ==
    /\ Loaded
    /\ Len(csv) = 3
    /\ csv[1][1] = SentinelEOF
    /\ csv[2][1] = SentinelDate
    /\ ~IsSentinel(csv[3])
    /\ transactions = <<NewTradeTDA(csv[3]).t>>
    /\ transactions[1] # Nil

-----------------------------------------------------------------------------
(* C17 *)

\* main has called getConfigs
Configured == pc # "getConfigs" /\ pc # "costBasis" /\ configs # Unused

\* the run ended in the nil-pointer dereference of loadTransactions: a panic
\* that is neither the one of groupSymbols nor the one of newTransactionStats
LoadCrashed == pc = "panic" /\ groupedSymbols # Panic /\ stats # Panic

\* the value config.json supplies for TransactionsFile, "" when it supplies none
Supplied ==
    IF configFile.kind = "object" THEN configFile.transactionsFile ELSE ""

\* C17: whatever config.json is, getConfigs returns a populated configuration:
\* its TransactionsFile is the value the file supplies, and "transactions.csv"
\* when the file is missing, unreadable or supplies none; main then calls
\* loadTransactions, which does not crash on the configuration.
C17_ConfigIsNeverFatal ==
    Configured =>
        /\ configs # Nil
        /\ configs.TransactionsFile =
               IF Supplied # "" THEN Supplied ELSE "transactions.csv"
        /\ ~LoadCrashed

\* C17 for every config.json but the literal null
C17_UnlessConfigIsNull ==
    (Configured /\ configFile.kind # "null") =>
        /\ configs # Nil
        /\ configs.TransactionsFile =
               IF Supplied # "" THEN Supplied ELSE "transactions.csv"
        /\ ~LoadCrashed

-----------------------------------------------------------------------------
(* C18 *)

\* the places of the output list that are related positions
Nested(list) == {p \in Places(list) : p[2] > 0}

\* C18: in the output of getEffectiveCostBasis, for every order of the two
\* range loops, a record in some RelatedPositions has no related positions of
\* its own, stands at that one place among the related positions of the whole
\* list, and is no top-level record.  A record is told by its symbol: every
\* record of the output is built by its own newCostBasis call.
C18_RelatedAreNestedOneLevel ==
    Aggregated =>
        \A p \in Nested(cb) :
            /\ RecordAt(cb, p).RelatedPositions = <<>>
            /\ \A q \in Nested(cb) :
                   RecordAt(cb, q).Symbol = RecordAt(cb, p).Symbol => q = p
            /\ \A i \in 1..Len(cb) : cb[i].Symbol # RecordAt(cb, p).Symbol

\* C18 witness: an output in which a symbol that is itself a base of the
\* relationship map is a related position of another base.
C18_Witness ==
    /\ Aggregated
    /\ \E p \in Nested(cb) :
           /\ RecordAt(cb, p).Symbol \in DOMAIN relatedSymbols
           /\ cb[p[1]].Symbol \in DOMAIN relatedSymbols
           /\ Len(cb[p[1]].RelatedPositions) >= 2

====
